---- MODULE Spec2Model ----
(***************************************************************************)
(* Model of the deferred-reference crate: Deferred handles over a place,   *)
(* the SlicePointerIndex protocol (index computation on raw pointers       *)
(* without dereferencing), PointerLength, and the slice-like methods of    *)
(* Deferred (len, get, get_mut, get_unchecked, index, split_at, ...).      *)
(*                                                                         *)
(* Addresses are counted in elements.  A raw pointer is a record           *)
(* [addr, len, kind]: kind "array" is *const [T; N] (len is the N of the   *)
(* type), kind "slice" is a fat pointer *const [T] (len is its metadata),  *)
(* kind "elem" is *const T.  usize arithmetic is taken modulo 2^UsizeBits. *)
(***************************************************************************)
EXTENDS Integers, Sequences, FiniteSets, TLC

VARIABLES
    slice_ptr_len,  \* build configuration: Cargo feature slice_ptr_len enabled
    mem,            \* contents of the place (the backing array), by address
    handles,        \* the Deferred values in scope, a sequence of [ptr, mut]
    borrows,        \* for each handle, the handle whose borrow its lifetime is
    refs,           \* the live references, a set of [addr, len, kind, mut]
    held,           \* the references bound to a variable of the caller
    last            \* the call that has returned and whose result is still held

vars == <<slice_ptr_len, mem, handles, borrows, refs, held, last>>

\* ---------------------------------------------------------------- bounds
\* number of elements of the backing array
MaxLen == 3
\* width of usize in bits
UsizeBits == 3
\* address of element 0 of the backing array
PlaceBase == 16
\* number of handles a caller keeps in scope
MaxHandles == 2
\* the element values callers store: 1 .. MaxValue
MaxValue == 2
\* number of references a caller keeps bound at the same time
MaxHeld == 2
\* number of handles in scope of a caller that splits handles
MaxScope == 3

Modulus == 2 ^ UsizeBits
UsizeMax == Modulus - 1
Usize == 0 .. UsizeMax

PlaceAddrs == PlaceBase .. (PlaceBase + MaxLen - 1)

\* ---------------------------------------------------------------- values
NoPtr == [addr |-> 0, len |-> 0, kind |-> "null"]
NoMsg == [fn |-> "none", a |-> 0, b |-> 0]
NoRef == [addr |-> 0, len |-> 0, kind |-> "null", mut |-> FALSE]
NoIndex == [shape |-> "none", start |-> 0, end |-> 0, exhausted |-> FALSE]

\* results of the pointer-level functions: tag is "ok" (a plain return),
\* "some" / "none" (an Option) or "panic"; lens counts the calls of
\* PointerLength::len made; ovf records that a usize addition or
\* subtraction left the range of usize.
Returned(ptr) == [tag |-> "ok", ptr |-> ptr, msg |-> NoMsg, lens |-> 0, ovf |-> FALSE]
None == [tag |-> "none", ptr |-> NoPtr, msg |-> NoMsg, lens |-> 0, ovf |-> FALSE]
Panicked(msg) == [tag |-> "panic", ptr |-> NoPtr, msg |-> msg, lens |-> 0, ovf |-> FALSE]
Some(out) == IF out.tag = "ok" THEN [out EXCEPT !.tag = "some"] ELSE out
AfterLen(k, out) == [out EXCEPT !.lens = @ + k]
AfterOvf(o, out) == [out EXCEPT !.ovf = @ \/ o]

\* ---------------------------------------------------------------- panics
slice_start_index_len_fail(index, len) ==
    [fn |-> "range start index {} out of range for slice pointer of length {}", a |-> index, b |-> len]

slice_end_index_len_fail(index, len) ==
    [fn |-> "range end index {} out of range for slice pointer of length {}", a |-> index, b |-> len]

slice_index_order_fail(index, end) ==
    [fn |-> "slice pointer index starts at {} but ends at {}", a |-> index, b |-> end]

slice_end_index_overflow_fail ==
    [fn |-> "attempted to index slice pointer up to maximum usize", a |-> 0, b |-> 0]

slice_index_overflow_fail(index, len) ==
    [fn |-> "index {} out of range for slice pointer of length {}", a |-> index, b |-> len]

slice_ptr_len_fail ==
    [fn |-> "calling this method on slice pointers requires the slice_ptr_len feature to be enabled", a |-> 0, b |-> 0]

assert_fail ==
    [fn |-> "assertion failed: mid <= self.len()", a |-> 0, b |-> 0]

\* mutant: the length of an array is read from its first element
PointerLength_len_ReadsPointee(ptr) ==
    IF ptr.kind = "array"
    THEN [tag |-> "ok", val |-> IF ptr.addr \in DOMAIN mem THEN mem[ptr.addr] ELSE 0, msg |-> NoMsg]
    ELSE IF slice_ptr_len
         THEN [tag |-> "ok", val |-> ptr.len, msg |-> NoMsg]
         ELSE [tag |-> "panic", val |-> 0, msg |-> slice_ptr_len_fail]

\* ---------------------------------------------------------------- PointerLength
\* PointerLength::len: N for an array pointer (the pointer is ignored), the
\* fat-pointer metadata for a slice pointer when the feature is enabled, a
\* panic otherwise.  Never reads mem.
PointerLength_len(ptr) ==
    IF ptr.kind = "array"
    THEN [tag |-> "ok", val |-> ptr.len, msg |-> NoMsg]
    ELSE IF slice_ptr_len
         THEN [tag |-> "ok", val |-> ptr.len, msg |-> NoMsg]
         ELSE [tag |-> "panic", val |-> 0, msg |-> slice_ptr_len_fail]

\* slice as *const T::Element: the address of element 0
ElementPtr(slice) == slice.addr

\* ---------------------------------------------------------------- usize
\* mutant: the element pointer is not advanced to the position
usize_get_unchecked_NoAdd(self, slice) ==
    Returned([addr |-> ElementPtr(slice), len |-> 1, kind |-> "elem"])

usize_get_unchecked(self, slice) ==
    Returned([addr |-> ElementPtr(slice) + self, len |-> 1, kind |-> "elem"])

\* mutant: the element pointer is not advanced to the position
usize_get_unchecked_mut_NoAdd(self, slice) ==
    Returned([addr |-> ElementPtr(slice), len |-> 1, kind |-> "elem"])

usize_get_unchecked_mut(self, slice) ==
    Returned([addr |-> ElementPtr(slice) + self, len |-> 1, kind |-> "elem"])

\* mutant: the bound check admits the position len
usize_get_Inclusive(self, slice) ==
    LET l == PointerLength_len(slice) IN
    IF l.tag = "panic" THEN AfterLen(1, Panicked(l.msg))
    ELSE IF self <= l.val
         THEN AfterLen(1, Some(usize_get_unchecked(self, slice)))
         ELSE AfterLen(1, None)

usize_get(self, slice) ==
    LET l == PointerLength_len(slice) IN
    IF l.tag = "panic" THEN AfterLen(1, Panicked(l.msg))
    ELSE IF self < l.val
         THEN AfterLen(1, Some(usize_get_unchecked(self, slice)))
         ELSE AfterLen(1, None)

usize_get_mut(self, slice) ==
    LET l == PointerLength_len(slice) IN
    IF l.tag = "panic" THEN AfterLen(1, Panicked(l.msg))
    ELSE IF self < l.val
         THEN AfterLen(1, Some(usize_get_unchecked_mut(self, slice)))
         ELSE AfterLen(1, None)

usize_index(self, slice) ==
    LET l == PointerLength_len(slice) IN
    IF l.tag = "panic" THEN AfterLen(1, Panicked(l.msg))
    ELSE IF self > l.val
         THEN AfterLen(2, Panicked(slice_index_overflow_fail(self, l.val)))
         ELSE AfterLen(1, usize_get_unchecked(self, slice))

usize_index_mut(self, slice) ==
    LET l == PointerLength_len(slice) IN
    IF l.tag = "panic" THEN AfterLen(1, Panicked(l.msg))
    ELSE IF self > l.val
         THEN AfterLen(2, Panicked(slice_index_overflow_fail(self, l.val)))
         ELSE AfterLen(1, usize_get_unchecked_mut(self, slice))

\* ---------------------------------------------------------------- Range
\* core::ops::Range { start, end }
Range(start, end) == [start |-> start, end |-> end]

\* mutant: the length of the sub-slice is the end of the range
Range_get_unchecked_LenIsEnd(self, slice) ==
    AfterOvf(self.end < self.start,
        Returned([addr |-> ElementPtr(slice) + self.start,
                  len |-> self.end,
                  kind |-> "slice"]))

Range_get_unchecked(self, slice) ==
    AfterOvf(self.end < self.start,
        Returned([addr |-> ElementPtr(slice) + self.start,
                  len |-> (self.end - self.start) % Modulus,
                  kind |-> "slice"]))

\* mutant: the element pointer is not advanced to the start of the range
Range_get_unchecked_mut_NoOffset(self, slice) ==
    AfterOvf(self.end < self.start,
        Returned([addr |-> ElementPtr(slice),
                  len |-> (self.end - self.start) % Modulus,
                  kind |-> "slice"]))

Range_get_unchecked_mut(self, slice) ==
    AfterOvf(self.end < self.start,
        Returned([addr |-> ElementPtr(slice) + self.start,
                  len |-> (self.end - self.start) % Modulus,
                  kind |-> "slice"]))

\* mutant: a range with start = end is rejected
Range_get_RejectEmpty(self, slice) ==
    IF self.start >= self.end THEN None
    ELSE LET l == PointerLength_len(slice) IN
         IF l.tag = "panic" THEN AfterLen(1, Panicked(l.msg))
         ELSE IF self.end > l.val
              THEN AfterLen(1, None)
              ELSE AfterLen(1, Some(Range_get_unchecked(self, slice)))

Range_get(self, slice) ==
    IF self.start > self.end THEN None
    ELSE LET l == PointerLength_len(slice) IN
         IF l.tag = "panic" THEN AfterLen(1, Panicked(l.msg))
         ELSE IF self.end > l.val
              THEN AfterLen(1, None)
              ELSE AfterLen(1, Some(Range_get_unchecked(self, slice)))

Range_get_mut(self, slice) ==
    IF self.start > self.end THEN None
    ELSE LET l == PointerLength_len(slice) IN
         IF l.tag = "panic" THEN AfterLen(1, Panicked(l.msg))
         ELSE IF self.end > l.val
              THEN AfterLen(1, None)
              ELSE AfterLen(1, Some(Range_get_unchecked_mut(self, slice)))

\* mutant: the end is checked against the length before the order
Range_index_EndFirst(self, slice) ==
    LET l == PointerLength_len(slice) IN
    IF l.tag = "panic" THEN AfterLen(1, Panicked(l.msg))
    ELSE IF self.end > l.val
         THEN AfterLen(2, Panicked(slice_end_index_len_fail(self.end, l.val)))
         ELSE IF self.start > self.end
              THEN AfterLen(1, Panicked(slice_index_order_fail(self.start, self.end)))
              ELSE AfterLen(1, Range_get_unchecked(self, slice))

Range_index(self, slice) ==
    IF self.start > self.end
    THEN Panicked(slice_index_order_fail(self.start, self.end))
    ELSE LET l == PointerLength_len(slice) IN
         IF l.tag = "panic" THEN AfterLen(1, Panicked(l.msg))
         ELSE IF self.end > l.val
              THEN AfterLen(2, Panicked(slice_end_index_len_fail(self.end, l.val)))
              ELSE AfterLen(1, Range_get_unchecked(self, slice))

Range_index_mut(self, slice) ==
    IF self.start > self.end
    THEN Panicked(slice_index_order_fail(self.start, self.end))
    ELSE LET l == PointerLength_len(slice) IN
         IF l.tag = "panic" THEN AfterLen(1, Panicked(l.msg))
         ELSE IF self.end > l.val
              THEN AfterLen(2, Panicked(slice_end_index_len_fail(self.end, l.val)))
              ELSE AfterLen(1, Range_get_unchecked_mut(self, slice))

\* ---------------------------------------------------------------- RangeTo
\* core::ops::RangeTo { end }
RangeTo(end) == [end |-> end]

RangeTo_get(self, slice) == Range_get(Range(0, self.end), slice)

RangeTo_get_mut(self, slice) == Range_get_mut(Range(0, self.end), slice)

RangeTo_get_unchecked(self, slice) == Range_get_unchecked(Range(0, self.end), slice)

RangeTo_get_unchecked_mut(self, slice) == Range_get_unchecked_mut(Range(0, self.end), slice)

RangeTo_index(self, slice) == Range_index(Range(0, self.end), slice)

RangeTo_index_mut(self, slice) == Range_index_mut(Range(0, self.end), slice)

\* ---------------------------------------------------------------- RangeFrom
\* core::ops::RangeFrom { start }
RangeFrom(start) == [start |-> start]

RangeFrom_get(self, slice) ==
    LET l == PointerLength_len(slice) IN
    IF l.tag = "panic" THEN AfterLen(1, Panicked(l.msg))
    ELSE AfterLen(1, Range_get(Range(self.start, l.val), slice))

RangeFrom_get_mut(self, slice) ==
    LET l == PointerLength_len(slice) IN
    IF l.tag = "panic" THEN AfterLen(1, Panicked(l.msg))
    ELSE AfterLen(1, Range_get_mut(Range(self.start, l.val), slice))

\* mutant: the sub-slice pointer is not advanced to start
RangeFrom_get_unchecked_NoOffset(self, slice) ==
    LET l == PointerLength_len(slice) IN
    IF l.tag = "panic" THEN AfterLen(1, Panicked(l.msg))
    ELSE AfterLen(1, Returned([addr |-> ElementPtr(slice),
                               len |-> (l.val - self.start) % Modulus,
                               kind |-> "slice"]))

RangeFrom_get_unchecked(self, slice) ==
    LET l == PointerLength_len(slice) IN
    IF l.tag = "panic" THEN AfterLen(1, Panicked(l.msg))
    ELSE AfterLen(1, Range_get_unchecked(Range(self.start, l.val), slice))

RangeFrom_get_unchecked_mut(self, slice) ==
    LET l == PointerLength_len(slice) IN
    IF l.tag = "panic" THEN AfterLen(1, Panicked(l.msg))
    ELSE AfterLen(1, Range_get_unchecked_mut(Range(self.start, l.val), slice))

RangeFrom_index(self, slice) ==
    LET l == PointerLength_len(slice) IN
    IF l.tag = "panic" THEN AfterLen(1, Panicked(l.msg))
    ELSE IF self.start > l.val
         THEN AfterLen(2, Panicked(slice_start_index_len_fail(self.start, l.val)))
         ELSE AfterLen(1, RangeFrom_get_unchecked(self, slice))

\* mutant: the mutable variant rejects the empty tail len..
RangeFrom_index_mut_Strict(self, slice) ==
    LET l == PointerLength_len(slice) IN
    IF l.tag = "panic" THEN AfterLen(1, Panicked(l.msg))
    ELSE IF self.start >= l.val
         THEN AfterLen(2, Panicked(slice_start_index_len_fail(self.start, l.val)))
         ELSE AfterLen(1, RangeFrom_get_unchecked_mut(self, slice))

RangeFrom_index_mut(self, slice) ==
    LET l == PointerLength_len(slice) IN
    IF l.tag = "panic" THEN AfterLen(1, Panicked(l.msg))
    ELSE IF self.start > l.val
         THEN AfterLen(2, Panicked(slice_start_index_len_fail(self.start, l.val)))
         ELSE AfterLen(1, RangeFrom_get_unchecked_mut(self, slice))

\* ---------------------------------------------------------------- RangeFull
\* impl SlicePointerIndex<[T]> for RangeFull: the pointer itself
RangeFull_slice_get(self, slice) == Some(Returned(slice))

RangeFull_slice_get_mut(self, slice) == Some(Returned(slice))

RangeFull_slice_get_unchecked(self, slice) == Returned(slice)

RangeFull_slice_get_unchecked_mut(self, slice) == Returned(slice)

\* mutant: the full range is indexed as 0..
RangeFull_slice_index_AsRangeFrom(self, slice) == RangeFrom_index(RangeFrom(0), slice)

RangeFull_slice_index(self, slice) == Returned(slice)

RangeFull_slice_index_mut(self, slice) == Returned(slice)

\* the unsizing coercion *const [T; N] -> *const [T]: same address, metadata N
Unsize(slice) == [addr |-> slice.addr, len |-> slice.len, kind |-> "slice"]

\* impl SlicePointerIndex<[T; N]> for RangeFull: the pointer, unsized
RangeFull_array_get(self, slice) == Some(Returned(Unsize(slice)))

RangeFull_array_get_mut(self, slice) == Some(Returned(Unsize(slice)))

RangeFull_array_get_unchecked(self, slice) == Returned(Unsize(slice))

RangeFull_array_get_unchecked_mut(self, slice) == Returned(Unsize(slice))

RangeFull_array_index(self, slice) == Returned(Unsize(slice))

RangeFull_array_index_mut(self, slice) == Returned(Unsize(slice))

\* ---------------------------------------------------------------- RangeInclusive
\* core::ops::RangeInclusive { start, end, exhausted }
RangeInclusive(start, end, exhausted) ==
    [start |-> start, end |-> end, exhausted |-> exhausted]

\* RangeInclusive::is_empty
is_empty(range_inclusive) ==
    range_inclusive.exhausted \/ ~(range_inclusive.start <= range_inclusive.end)

\* the result is the exclusive Range and whether end + 1 overflowed
into_slice_range(range_inclusive) ==
    LET exclusive_end == (range_inclusive.end + 1) % Modulus
        start == IF is_empty(range_inclusive) THEN exclusive_end
                 ELSE range_inclusive.start
    IN  [range |-> Range(start, exclusive_end),
         ovf |-> range_inclusive.end + 1 > UsizeMax]

\* mutant: the end is not compared with usize::MAX
RangeInclusive_get_NoMaxCheck(self, slice) ==
    LET r == into_slice_range(self) IN AfterOvf(r.ovf, Range_get(r.range, slice))

RangeInclusive_get(self, slice) ==
    IF self.end = UsizeMax THEN None
    ELSE LET r == into_slice_range(self) IN AfterOvf(r.ovf, Range_get(r.range, slice))

RangeInclusive_get_mut(self, slice) ==
    IF self.end = UsizeMax THEN None
    ELSE LET r == into_slice_range(self) IN AfterOvf(r.ovf, Range_get_mut(r.range, slice))

RangeInclusive_get_unchecked(self, slice) ==
    LET r == into_slice_range(self) IN AfterOvf(r.ovf, Range_get_unchecked(r.range, slice))

RangeInclusive_get_unchecked_mut(self, slice) ==
    LET r == into_slice_range(self) IN AfterOvf(r.ovf, Range_get_unchecked_mut(r.range, slice))

RangeInclusive_index(self, slice) ==
    IF self.end = UsizeMax THEN Panicked(slice_end_index_overflow_fail)
    ELSE LET r == into_slice_range(self) IN AfterOvf(r.ovf, Range_index(r.range, slice))

RangeInclusive_index_mut(self, slice) ==
    IF self.end = UsizeMax THEN Panicked(slice_end_index_overflow_fail)
    ELSE LET r == into_slice_range(self) IN AfterOvf(r.ovf, Range_index_mut(r.range, slice))

\* ---------------------------------------------------------------- RangeToInclusive
\* core::ops::RangeToInclusive { end }
RangeToInclusive(end) == [end |-> end]

RangeToInclusive_get(self, slice) ==
    RangeInclusive_get(RangeInclusive(0, self.end, FALSE), slice)

RangeToInclusive_get_mut(self, slice) ==
    RangeInclusive_get_mut(RangeInclusive(0, self.end, FALSE), slice)

RangeToInclusive_get_unchecked(self, slice) ==
    RangeInclusive_get_unchecked(RangeInclusive(0, self.end, FALSE), slice)

RangeToInclusive_get_unchecked_mut(self, slice) ==
    RangeInclusive_get_unchecked_mut(RangeInclusive(0, self.end, FALSE), slice)

RangeToInclusive_index(self, slice) ==
    RangeInclusive_index(RangeInclusive(0, self.end, FALSE), slice)

RangeToInclusive_index_mut(self, slice) ==
    RangeInclusive_index_mut(RangeInclusive(0, self.end, FALSE), slice)

\* ---------------------------------------------------------------- index values
\* an index value of any of the shapes implementing SlicePointerIndex; a
\* RangeInclusive is exhausted only after iteration has reached start = end
Idx(shape, start, end, exhausted) ==
    [shape |-> shape, start |-> start, end |-> end, exhausted |-> exhausted]

Indices ==
    {Idx("usize", i, 0, FALSE) : i \in Usize}
    \cup {Idx("Range", a, b, FALSE) : a \in Usize, b \in Usize}
    \cup {Idx("RangeTo", 0, b, FALSE) : b \in Usize}
    \cup {Idx("RangeFrom", a, 0, FALSE) : a \in Usize}
    \cup {Idx("RangeFull", 0, 0, FALSE)}
    \cup {Idx("RangeInclusive", a, b, FALSE) : a \in Usize, b \in Usize}
    \cup {Idx("RangeInclusive", a, a, TRUE) : a \in Usize}
    \cup {Idx("RangeToInclusive", 0, b, FALSE) : b \in Usize}

\* trait dispatch on the type of the index (and, for RangeFull, of the pointee)
SlicePointerIndex_get(index, slice) ==
    CASE index.shape = "usize" -> usize_get(index.start, slice)
      [] index.shape = "Range" -> Range_get(Range(index.start, index.end), slice)
      [] index.shape = "RangeTo" -> RangeTo_get(RangeTo(index.end), slice)
      [] index.shape = "RangeFrom" -> RangeFrom_get(RangeFrom(index.start), slice)
      [] index.shape = "RangeFull" ->
            IF slice.kind = "array" THEN RangeFull_array_get(index, slice)
            ELSE RangeFull_slice_get(index, slice)
      [] index.shape = "RangeInclusive" ->
            RangeInclusive_get(RangeInclusive(index.start, index.end, index.exhausted), slice)
      [] index.shape = "RangeToInclusive" -> RangeToInclusive_get(RangeToInclusive(index.end), slice)

SlicePointerIndex_get_mut(index, slice) ==
    CASE index.shape = "usize" -> usize_get_mut(index.start, slice)
      [] index.shape = "Range" -> Range_get_mut(Range(index.start, index.end), slice)
      [] index.shape = "RangeTo" -> RangeTo_get_mut(RangeTo(index.end), slice)
      [] index.shape = "RangeFrom" -> RangeFrom_get_mut(RangeFrom(index.start), slice)
      [] index.shape = "RangeFull" ->
            IF slice.kind = "array" THEN RangeFull_array_get_mut(index, slice)
            ELSE RangeFull_slice_get_mut(index, slice)
      [] index.shape = "RangeInclusive" ->
            RangeInclusive_get_mut(RangeInclusive(index.start, index.end, index.exhausted), slice)
      [] index.shape = "RangeToInclusive" -> RangeToInclusive_get_mut(RangeToInclusive(index.end), slice)

SlicePointerIndex_get_unchecked(index, slice) ==
    CASE index.shape = "usize" -> usize_get_unchecked(index.start, slice)
      [] index.shape = "Range" -> Range_get_unchecked(Range(index.start, index.end), slice)
      [] index.shape = "RangeTo" -> RangeTo_get_unchecked(RangeTo(index.end), slice)
      [] index.shape = "RangeFrom" -> RangeFrom_get_unchecked(RangeFrom(index.start), slice)
      [] index.shape = "RangeFull" ->
            IF slice.kind = "array" THEN RangeFull_array_get_unchecked(index, slice)
            ELSE RangeFull_slice_get_unchecked(index, slice)
      [] index.shape = "RangeInclusive" ->
            RangeInclusive_get_unchecked(RangeInclusive(index.start, index.end, index.exhausted), slice)
      [] index.shape = "RangeToInclusive" -> RangeToInclusive_get_unchecked(RangeToInclusive(index.end), slice)

SlicePointerIndex_get_unchecked_mut(index, slice) ==
    CASE index.shape = "usize" -> usize_get_unchecked_mut(index.start, slice)
      [] index.shape = "Range" -> Range_get_unchecked_mut(Range(index.start, index.end), slice)
      [] index.shape = "RangeTo" -> RangeTo_get_unchecked_mut(RangeTo(index.end), slice)
      [] index.shape = "RangeFrom" -> RangeFrom_get_unchecked_mut(RangeFrom(index.start), slice)
      [] index.shape = "RangeFull" ->
            IF slice.kind = "array" THEN RangeFull_array_get_unchecked_mut(index, slice)
            ELSE RangeFull_slice_get_unchecked_mut(index, slice)
      [] index.shape = "RangeInclusive" ->
            RangeInclusive_get_unchecked_mut(RangeInclusive(index.start, index.end, index.exhausted), slice)
      [] index.shape = "RangeToInclusive" -> RangeToInclusive_get_unchecked_mut(RangeToInclusive(index.end), slice)

SlicePointerIndex_index(index, slice) ==
    CASE index.shape = "usize" -> usize_index(index.start, slice)
      [] index.shape = "Range" -> Range_index(Range(index.start, index.end), slice)
      [] index.shape = "RangeTo" -> RangeTo_index(RangeTo(index.end), slice)
      [] index.shape = "RangeFrom" -> RangeFrom_index(RangeFrom(index.start), slice)
      [] index.shape = "RangeFull" ->
            IF slice.kind = "array" THEN RangeFull_array_index(index, slice)
            ELSE RangeFull_slice_index(index, slice)
      [] index.shape = "RangeInclusive" ->
            RangeInclusive_index(RangeInclusive(index.start, index.end, index.exhausted), slice)
      [] index.shape = "RangeToInclusive" -> RangeToInclusive_index(RangeToInclusive(index.end), slice)

SlicePointerIndex_index_mut(index, slice) ==
    CASE index.shape = "usize" -> usize_index_mut(index.start, slice)
      [] index.shape = "Range" -> Range_index_mut(Range(index.start, index.end), slice)
      [] index.shape = "RangeTo" -> RangeTo_index_mut(RangeTo(index.end), slice)
      [] index.shape = "RangeFrom" -> RangeFrom_index_mut(RangeFrom(index.start), slice)
      [] index.shape = "RangeFull" ->
            IF slice.kind = "array" THEN RangeFull_array_index_mut(index, slice)
            ELSE RangeFull_slice_index_mut(index, slice)
      [] index.shape = "RangeInclusive" ->
            RangeInclusive_index_mut(RangeInclusive(index.start, index.end, index.exhausted), slice)
      [] index.shape = "RangeToInclusive" -> RangeToInclusive_index_mut(RangeToInclusive(index.end), slice)

\* ---------------------------------------------------------------- Deferred
\* results of the methods of Deferred: a pointer-level result plus the usize
\* returned (val), the reference created (ref) and the handles returned (ret)
Result(out, val, ref, ret) ==
    [tag |-> out.tag, ptr |-> out.ptr, msg |-> out.msg, lens |-> out.lens,
     ovf |-> out.ovf, val |-> val, ref |-> ref, ret |-> ret]

NoResult == Result(Returned(NoPtr), 0, NoRef, <<>>)

\* &*ptr and &mut *ptr: a reference to exactly the pointee of ptr
SharedRef(ptr) == [addr |-> ptr.addr, len |-> ptr.len, kind |-> ptr.kind, mut |-> FALSE]

MutRef(ptr) == [addr |-> ptr.addr, len |-> ptr.len, kind |-> ptr.kind, mut |-> TRUE]

\* reference as *const T
RefToPtr(reference) == [addr |-> reference.addr, len |-> reference.len, kind |-> reference.kind]

from_raw(ptr) == [ptr |-> ptr, mut |-> FALSE]

from_raw_mut(ptr) == [ptr |-> ptr, mut |-> TRUE]

new(reference) == from_raw(RefToPtr(reference))

new_mut(reference) == from_raw_mut(RefToPtr(reference))

\* mutant: the handle is built from a pointer to the first element, the
\* extent of the referent is lost
From_ref_Thin(reference) ==
    from_raw([addr |-> reference.addr, len |-> 1, kind |-> "elem"])

\* impl From<&T> for Deferred<&T>
From_ref(reference) == from_raw(RefToPtr(reference))

\* impl From<&mut T> for Deferred<&mut T>
From_ref_mut(reference) == from_raw_mut(RefToPtr(reference))

as_ptr(self) == self.ptr

as_mut_ptr(self) == self.ptr

\* mutant: without the metadata the length is taken from a reference to the
\* slice, (&*ptr).len()
Deferred_len_ViaReference(self) ==
    LET l == PointerLength_len(as_ptr(self)) IN
    IF l.tag = "panic"
    THEN Result(AfterLen(1, Returned(NoPtr)), as_ptr(self).len, SharedRef(as_ptr(self)), <<>>)
    ELSE Result(AfterLen(1, Returned(NoPtr)), l.val, NoRef, <<>>)

Deferred_len(self) ==
    LET l == PointerLength_len(as_ptr(self)) IN
    IF l.tag = "panic" THEN Result(AfterLen(1, Panicked(l.msg)), 0, NoRef, <<>>)
    ELSE Result(AfterLen(1, Returned(NoPtr)), l.val, NoRef, <<>>)

Deferred_get(self, index) ==
    LET o == SlicePointerIndex_get(index, as_ptr(self)) IN
    IF o.tag = "some" THEN Result(o, 0, SharedRef(o.ptr), <<>>)
    ELSE Result(o, 0, NoRef, <<>>)

Deferred_get_unchecked(self, index) ==
    LET o == SlicePointerIndex_get_unchecked(index, as_ptr(self)) IN
    IF o.tag = "ok" THEN Result(o, 0, SharedRef(o.ptr), <<>>)
    ELSE Result(o, 0, NoRef, <<>>)

Deferred_get_mut(self, index) ==
    LET o == SlicePointerIndex_get_mut(index, as_mut_ptr(self)) IN
    IF o.tag = "some" THEN Result(o, 0, MutRef(o.ptr), <<>>)
    ELSE Result(o, 0, NoRef, <<>>)

Deferred_get_unchecked_mut(self, index) ==
    LET o == SlicePointerIndex_get_unchecked_mut(index, as_mut_ptr(self)) IN
    IF o.tag = "ok" THEN Result(o, 0, MutRef(o.ptr), <<>>)
    ELSE Result(o, 0, NoRef, <<>>)

\* mutant: the handle is dereferenced first and the reference to the whole
\* region is handed out
Deferred_index_WholeRegion(self, index) ==
    LET o == SlicePointerIndex_index(index, as_ptr(self)) IN
    IF o.tag = "ok" THEN Result(o, 0, SharedRef(as_ptr(self)), <<>>)
    ELSE Result(o, 0, NoRef, <<>>)

\* impl Index for Deferred
Deferred_index(self, index) ==
    LET o == SlicePointerIndex_index(index, as_ptr(self)) IN
    IF o.tag = "ok" THEN Result(o, 0, SharedRef(o.ptr), <<>>)
    ELSE Result(o, 0, NoRef, <<>>)

\* mutant: the handle is dereferenced first and the reference to the whole
\* region is handed out
Deferred_index_mut_WholeRegion(self, index) ==
    LET o == SlicePointerIndex_index_mut(index, as_mut_ptr(self)) IN
    IF o.tag = "ok" THEN Result(o, 0, MutRef(as_mut_ptr(self)), <<>>)
    ELSE Result(o, 0, NoRef, <<>>)

\* impl IndexMut for Deferred
Deferred_index_mut(self, index) ==
    LET o == SlicePointerIndex_index_mut(index, as_mut_ptr(self)) IN
    IF o.tag = "ok" THEN Result(o, 0, MutRef(o.ptr), <<>>)
    ELSE Result(o, 0, NoRef, <<>>)

\* mutant: the handle is dereferenced and the reference to the whole region
\* is split, as core's split_at does
split_at_unchecked_ViaReference(self, mid) ==
    LET l == RangeTo_get_unchecked(RangeTo(mid), as_ptr(self))
        r == RangeFrom_get_unchecked(RangeFrom(mid), as_ptr(self))
    IN  IF l.tag = "panic" THEN Result(l, 0, NoRef, <<>>)
        ELSE IF r.tag = "panic" THEN Result(AfterLen(l.lens, AfterOvf(l.ovf, r)), 0, NoRef, <<>>)
        ELSE Result(AfterLen(l.lens + r.lens, AfterOvf(l.ovf \/ r.ovf, Returned(NoPtr))),
                    0, SharedRef(as_ptr(self)), <<from_raw(l.ptr), from_raw(r.ptr)>>)

split_at_unchecked(self, mid) ==
    LET l == RangeTo_get_unchecked(RangeTo(mid), as_ptr(self))
        r == RangeFrom_get_unchecked(RangeFrom(mid), as_ptr(self))
    IN  IF l.tag = "panic" THEN Result(l, 0, NoRef, <<>>)
        ELSE IF r.tag = "panic" THEN Result(AfterLen(l.lens, AfterOvf(l.ovf, r)), 0, NoRef, <<>>)
        ELSE Result(AfterLen(l.lens + r.lens, AfterOvf(l.ovf \/ r.ovf, Returned(NoPtr))),
                    0, NoRef, <<from_raw(l.ptr), from_raw(r.ptr)>>)

\* mutant: the bound assertion is missing
split_at_NoAssert(self, mid) ==
    LET n == Deferred_len(self) IN
    IF n.tag = "panic" THEN n
    ELSE LET s == split_at_unchecked(self, mid) IN [s EXCEPT !.lens = @ + 1]

split_at(self, mid) ==
    LET n == Deferred_len(self) IN
    IF n.tag = "panic" THEN n
    ELSE IF ~(mid <= n.val) THEN Result(AfterLen(1, Panicked(assert_fail)), 0, NoRef, <<>>)
    ELSE LET s == split_at_unchecked(self, mid) IN [s EXCEPT !.lens = @ + 1]

\* mutant: the right half starts at element 0 instead of mid
split_at_mut_unchecked_RightFromStart(self, mid) ==
    LET l == RangeTo_get_unchecked_mut(RangeTo(mid), as_mut_ptr(self))
        r == RangeFrom_get_unchecked_mut(RangeFrom(0), as_mut_ptr(self))
    IN  IF l.tag = "panic" THEN Result(l, 0, NoRef, <<>>)
        ELSE IF r.tag = "panic" THEN Result(AfterLen(l.lens, AfterOvf(l.ovf, r)), 0, NoRef, <<>>)
        ELSE Result(AfterLen(l.lens + r.lens, AfterOvf(l.ovf \/ r.ovf, Returned(NoPtr))),
                    0, NoRef, <<from_raw_mut(l.ptr), from_raw_mut(r.ptr)>>)

split_at_mut_unchecked(self, mid) ==
    LET l == RangeTo_get_unchecked_mut(RangeTo(mid), as_mut_ptr(self))
        r == RangeFrom_get_unchecked_mut(RangeFrom(mid), as_mut_ptr(self))
    IN  IF l.tag = "panic" THEN Result(l, 0, NoRef, <<>>)
        ELSE IF r.tag = "panic" THEN Result(AfterLen(l.lens, AfterOvf(l.ovf, r)), 0, NoRef, <<>>)
        ELSE Result(AfterLen(l.lens + r.lens, AfterOvf(l.ovf \/ r.ovf, Returned(NoPtr))),
                    0, NoRef, <<from_raw_mut(l.ptr), from_raw_mut(r.ptr)>>)

split_at_mut(self, mid) ==
    LET n == Deferred_len(self) IN
    IF n.tag = "panic" THEN n
    ELSE IF ~(mid <= n.val) THEN Result(AfterLen(1, Panicked(assert_fail)), 0, NoRef, <<>>)
    ELSE LET s == split_at_mut_unchecked(self, mid) IN [s EXCEPT !.lens = @ + 1]

\* a method that returns handles only
Handed(ret) == Result(Returned(NoPtr), 0, NoRef, ret)

\* a method that returns a raw pointer
Pointed(ptr) == Result(Returned(ptr), 0, NoRef, <<>>)

\* impl Clone for Deferred (T: Copy, that is a shared handle): *self
Deferred_clone(self) == self

clone_unchecked(self) == from_raw_mut(as_mut_ptr(self))

\* mutant: the downgrade points at element 0 only, the length is lost
From_mut_for_ref_Element(deferred) ==
    from_raw([addr |-> ElementPtr(as_ptr(deferred)), len |-> 1, kind |-> "elem"])

\* impl From<Deferred<&mut T>> for Deferred<&T>
From_mut_for_ref(deferred) == from_raw(as_ptr(deferred))

\* self.into()
into_ref(self) == From_mut_for_ref(self)

\* core::ptr::slice_from_raw_parts and slice_from_raw_parts_mut
slice_from_raw_parts(data, len) == [addr |-> data, len |-> len, kind |-> "slice"]

\* the N of the pointee type [T; N]
ArrayLen(ptr) == ptr.len

\* impl From<Deferred<&[T; N]>> for Deferred<&[T]>
From_array_for_slice(deferred) ==
    from_raw(slice_from_raw_parts(ElementPtr(as_ptr(deferred)), ArrayLen(as_ptr(deferred))))

\* mutant: the slice is built with the length 0 instead of N
From_array_mut_for_slice_mut_Empty(deferred) ==
    from_raw_mut(slice_from_raw_parts(ElementPtr(as_mut_ptr(deferred)), 0))

\* impl From<Deferred<&mut [T; N]>> for Deferred<&mut [T]>
From_array_mut_for_slice_mut(deferred) ==
    from_raw_mut(slice_from_raw_parts(ElementPtr(as_mut_ptr(deferred)),
                                      ArrayLen(as_mut_ptr(deferred))))

\* impl From<Deferred<&mut [T; N]>> for Deferred<&[T]>
From_array_mut_for_slice(deferred) ==
    from_raw(slice_from_raw_parts(ElementPtr(as_ptr(deferred)), ArrayLen(as_ptr(deferred))))

\* mutant: the handle returned has the flavor of self
Deferred_defer_SameFlavor(self) == [ptr |-> as_ptr(self), mut |-> self.mut]

\* impl Defer for Deferred
Deferred_defer(self) == from_raw(as_ptr(self))

\* impl DeferMut for Deferred<&mut T>
Deferred_defer_mut(self) == from_raw_mut(as_mut_ptr(self))

\* impl Deref for Deferred: &*self.as_ptr()
Deferred_deref(self) ==
    Result(Returned(as_ptr(self)), 0, SharedRef(as_ptr(self)), <<>>)

\* mutant: the reference covers the first element of the region only
Deferred_deref_mut_Element(self) ==
    Result(Returned(as_mut_ptr(self)), 0,
           MutRef([addr |-> as_mut_ptr(self).addr, len |-> 1, kind |-> "elem"]), <<>>)

\* impl DerefMut for Deferred<&mut T>: &mut *self.as_mut_ptr()
Deferred_deref_mut(self) ==
    Result(Returned(as_mut_ptr(self)), 0, MutRef(as_mut_ptr(self)), <<>>)

\* UnsafeCell::get of the cell that holds the place: *mut [T; MaxLen]
UnsafeCell_get == [addr |-> PlaceBase, len |-> MaxLen, kind |-> "array"]

\* mutant: the shared view points one element past the start of the contents
UnsafeCell_defer_Offset == from_raw([UnsafeCell_get EXCEPT !.addr = @ + 1])

\* impl Defer for UnsafeCell<T>
UnsafeCell_defer == from_raw(UnsafeCell_get)

\* impl DeferMut for UnsafeCell<T>
UnsafeCell_defer_mut == from_raw_mut(UnsafeCell_get)

\* ---------------------------------------------------------------- memory
\* the value a read of address a yields; outside the place the read is
\* undefined, which Poison marks (no element of the place holds it)
Poison == 0 - 1

ReadMem(a) == IF a \in DOMAIN mem THEN mem[a] ELSE Poison

\* the elements a pointer or reference covers, in order
Contents(p) == [j \in 1 .. p.len |-> ReadMem(p.addr + j - 1)]

\* buffer[k], indexing the place directly
PlaceIndex(k) == mem[PlaceBase + k]

\* ---------------------------------------------------------------- caller contracts
\* the documented precondition of the unsafe unchecked accessors: the index
\* is in bounds of a region of n elements
InBounds(index, n) ==
    CASE index.shape = "usize" -> index.start < n
      [] index.shape = "Range" -> index.start <= index.end /\ index.end <= n
      [] index.shape = "RangeTo" -> index.end <= n
      [] index.shape = "RangeFrom" -> index.start <= n
      [] index.shape = "RangeFull" -> TRUE
      [] index.shape = "RangeInclusive" ->
            index.end < n /\ (index.exhausted \/ index.start <= index.end + 1)
      [] index.shape = "RangeToInclusive" -> index.end < n

\* ---------------------------------------------------------------- state machine
\* a handle built from a reference borrows no other handle
Owned == [from |-> 0, excl |-> FALSE]

\* the slot of a handle that was moved out of its variable
Moved == [ptr |-> NoPtr, mut |-> FALSE]

Idle ==
    [op |-> "idle", h |-> 0, index |-> NoIndex, mid |-> 0, value |-> 0, arg |-> NoPtr,
     res |-> NoResult]

\* value is the element value an assignment statement stores, arg the
\* reference or pointer a constructor was called with (as a pointer)
Called(op, k, index, mid, res) ==
    [op |-> op, h |-> k, index |-> index, mid |-> mid, value |-> 0, arg |-> NoPtr,
     res |-> res]

\* the place is the array buffer: [T; MaxLen] at PlaceBase, holding a
\* different value in every element; one handle is built by a safe
\* constructor from a reference to the whole array, to a sub-array or to a
\* sub-slice of it.  No reference is live.
Init ==
    /\ slice_ptr_len \in BOOLEAN
    /\ mem = [a \in PlaceAddrs |-> 100 + (a - PlaceBase)]
    /\ \E off \in 0 .. MaxLen, kind \in {"array", "slice"}, m \in BOOLEAN :
         \E n \in 0 .. (MaxLen - off) :
            LET reference == [addr |-> PlaceBase + off, len |-> n, kind |-> kind, mut |-> m]
            IN  handles = << IF m THEN new_mut(reference) ELSE new(reference) >>
    /\ borrows = <<Owned>>
    /\ refs = {}
    /\ held = {}
    /\ last = Idle

\* a call returns: its result is held in last, the reference it created is live
Return(op, k, index, mid, res) ==
    /\ last' = Called(op, k, index, mid, res)
    /\ refs' = IF res.ref = NoRef THEN refs ELSE refs \cup {res.ref}
    /\ UNCHANGED <<slice_ptr_len, mem, handles, borrows, held>>

CallLen(k) ==
    /\ last = Idle
    /\ Return("len", k, NoIndex, 0, Deferred_len(handles[k]))

CallGet(k, index) ==
    /\ last = Idle
    /\ Return("get", k, index, 0, Deferred_get(handles[k], index))

CallGetMut(k, index) ==
    /\ last = Idle
    /\ handles[k].mut
    /\ Return("get_mut", k, index, 0, Deferred_get_mut(handles[k], index))

\* declared a safe fn: callable with any index
CallGetUnchecked(k, index) ==
    /\ last = Idle
    /\ Return("get_unchecked", k, index, 0, Deferred_get_unchecked(handles[k], index))

\* an unsafe fn: called under its documented precondition
CallGetUncheckedMut(k, index) ==
    /\ last = Idle
    /\ handles[k].mut
    /\ InBounds(index, handles[k].ptr.len)
    /\ Return("get_unchecked_mut", k, index, 0, Deferred_get_unchecked_mut(handles[k], index))

CallIndex(k, index) ==
    /\ last = Idle
    /\ Return("index", k, index, 0, Deferred_index(handles[k], index))

CallIndexMut(k, index) ==
    /\ last = Idle
    /\ handles[k].mut
    /\ Return("index_mut", k, index, 0, Deferred_index_mut(handles[k], index))

\* an unsafe fn: called under its documented precondition 0 <= mid <= len
CallSplitAtUnchecked(k, mid) ==
    /\ last = Idle
    /\ mid <= handles[k].ptr.len
    /\ Return("split_at_unchecked", k, NoIndex, mid, split_at_unchecked(handles[k], mid))

CallSplitAt(k, mid) ==
    /\ last = Idle
    /\ Return("split_at", k, NoIndex, mid, split_at(handles[k], mid))

\* an unsafe fn: called under its documented precondition 0 <= mid <= len
CallSplitAtMutUnchecked(k, mid) ==
    /\ last = Idle
    /\ handles[k].mut
    /\ mid <= handles[k].ptr.len
    /\ Return("split_at_mut_unchecked", k, NoIndex, mid, split_at_mut_unchecked(handles[k], mid))

\* mutant: the handle keeps the right half only, as a splitting-off method does
CallSplitAtMut_NarrowsSelf(k, mid) ==
    /\ last = Idle
    /\ handles[k].mut
    /\ LET res == split_at_mut(handles[k], mid) IN
       /\ last' = Called("split_at_mut", k, NoIndex, mid, res)
       /\ handles' = IF res.tag = "ok" THEN [handles EXCEPT ![k] = res.ret[2]] ELSE handles
    /\ UNCHANGED <<slice_ptr_len, mem, borrows, refs, held>>

CallSplitAtMut(k, mid) ==
    /\ last = Idle
    /\ handles[k].mut
    /\ Return("split_at_mut", k, NoIndex, mid, split_at_mut(handles[k], mid))

\* a call that takes its handle by value: the variable is moved out of
ReturnMoved(op, k, res) ==
    /\ last' = Called(op, k, NoIndex, 0, res)
    /\ handles' = [handles EXCEPT ![k] = Moved]
    /\ UNCHANGED <<slice_ptr_len, mem, borrows, refs, held>>

CallAsPtr(k) ==
    /\ last = Idle
    /\ Return("as_ptr", k, NoIndex, 0, Pointed(as_ptr(handles[k])))

CallAsMutPtr(k) ==
    /\ last = Idle
    /\ handles[k].mut
    /\ Return("as_mut_ptr", k, NoIndex, 0, Pointed(as_mut_ptr(handles[k])))

CallDeref(k) ==
    /\ last = Idle
    /\ Return("deref", k, NoIndex, 0, Deferred_deref(handles[k]))

CallDerefMut(k) ==
    /\ last = Idle
    /\ handles[k].mut
    /\ Return("deref_mut", k, NoIndex, 0, Deferred_deref_mut(handles[k]))

\* let copy = handle; for a handle that is Copy (a shared handle)
CallCopy(k) ==
    /\ last = Idle
    /\ ~handles[k].mut
    /\ Return("copy", k, NoIndex, 0, Handed(<<handles[k]>>))

CallClone(k) ==
    /\ last = Idle
    /\ ~handles[k].mut
    /\ Return("clone", k, NoIndex, 0, Handed(<<Deferred_clone(handles[k])>>))

\* an unsafe fn without a precondition on its arguments
CallCloneUnchecked(k) ==
    /\ last = Idle
    /\ handles[k].mut
    /\ Return("clone_unchecked", k, NoIndex, 0, Handed(<<clone_unchecked(handles[k])>>))

CallDefer(k) ==
    /\ last = Idle
    /\ Return("defer", k, NoIndex, 0, Handed(<<Deferred_defer(handles[k])>>))

\* an unsafe fn without a precondition on its arguments
CallDeferMut(k) ==
    /\ last = Idle
    /\ handles[k].mut
    /\ Return("defer_mut", k, NoIndex, 0, Handed(<<Deferred_defer_mut(handles[k])>>))

CallIntoRef(k) ==
    /\ last = Idle
    /\ handles[k].mut
    /\ ReturnMoved("into_ref", k, Handed(<<into_ref(handles[k])>>))

\* Deferred::<&T>::from(handle) and handle.into()
CallFromMut(k) ==
    /\ last = Idle
    /\ handles[k].mut
    /\ ReturnMoved("from_mut", k, Handed(<<From_mut_for_ref(handles[k])>>))

\* Deferred::<&[T]>::from(handle) for a shared array handle, which is Copy
CallFromArray(k) ==
    /\ last = Idle
    /\ ~handles[k].mut
    /\ handles[k].ptr.kind = "array"
    /\ Return("from_array", k, NoIndex, 0, Handed(<<From_array_for_slice(handles[k])>>))

\* Deferred::<&mut [T]>::from(handle) for an exclusive array handle
CallFromArrayMut(k) ==
    /\ last = Idle
    /\ handles[k].mut
    /\ handles[k].ptr.kind = "array"
    /\ ReturnMoved("from_array_mut", k, Handed(<<From_array_mut_for_slice_mut(handles[k])>>))

\* Deferred::<&[T]>::from(handle) for an exclusive array handle
CallFromArrayMutShared(k) ==
    /\ last = Idle
    /\ handles[k].mut
    /\ handles[k].ptr.kind = "array"
    /\ ReturnMoved("from_array_mut_shared", k, Handed(<<From_array_mut_for_slice(handles[k])>>))

\* the caller drops the result of the call: the borrow it holds ends (after
\* a panic, the unwinding ends)
Discard ==
    /\ last # Idle
    /\ last' = Idle
    /\ refs' = {x.ref : x \in held}
    /\ UNCHANGED <<slice_ptr_len, mem, handles, borrows, held>>

\* ---------------------------------------------------------------- callers
\* the steps of callers that keep several handles to one place, as the
\* tests and doc examples of the crate do

\* the addresses a pointer or reference covers
Cover(p) == p.addr .. (p.addr + p.len - 1)

\* the addresses of the elements an index asks for in the region of a handle
Requested(self, index) ==
    LET base == self.ptr.addr
        n == self.ptr.len
    IN  CASE index.shape = "usize" -> {base + index.start}
          [] index.shape = "Range" -> {base + j : j \in index.start .. (index.end - 1)}
          [] index.shape = "RangeTo" -> {base + j : j \in 0 .. (index.end - 1)}
          [] index.shape = "RangeFrom" -> {base + j : j \in index.start .. (n - 1)}
          [] index.shape = "RangeFull" -> {base + j : j \in 0 .. (n - 1)}
          [] index.shape = "RangeInclusive" ->
                IF index.exhausted THEN {} ELSE {base + j : j \in index.start .. index.end}
          [] index.shape = "RangeToInclusive" -> {base + j : j \in 0 .. index.end}

\* the place after v is stored in every element the reference covers; a
\* store outside the place lands in memory that is not part of the place
Filled(reference, v) ==
    [a \in PlaceAddrs |->
        IF reference.addr <= a /\ a < reference.addr + reference.len THEN v ELSE mem[a]]

Values == 1 .. MaxValue

\* positions and ranges within one element of the end of the place
NearIndices ==
    {index \in Indices :
        /\ index.shape \in {"usize", "Range", "RangeFrom", "RangeFull"}
        /\ index.start <= MaxLen /\ index.end <= MaxLen}

\* the positions, the ranges a..b of at least one element and the ranges
\* a.. and .., up to one element past the end of the place
SpanIndices ==
    {index \in NearIndices :
        index.shape = "Range" => index.start < index.end}

CallCellDefer ==
    /\ last = Idle
    /\ Return("cell_defer", 0, NoIndex, 0, Handed(<<UnsafeCell_defer>>))

\* an unsafe fn without a precondition on its arguments
CallCellDeferMut ==
    /\ last = Idle
    /\ Return("cell_defer_mut", 0, NoIndex, 0, Handed(<<UnsafeCell_defer_mut>>))

\* what the lifetime of a returned handle borrows: the results of split_at,
\* defer and defer_mut borrow &self, those of split_at_mut borrow &mut self,
\* a copy, a clone and a conversion have the lifetime of the handle itself
Borrowing(op, k) ==
    IF op \in {"split_at_mut", "split_at_mut_unchecked"} THEN [from |-> k, excl |-> TRUE]
    ELSE IF op \in {"split_at", "split_at_unchecked", "defer", "defer_mut"}
    THEN [from |-> k, excl |-> FALSE]
    ELSE IF k = 0 THEN Owned
    ELSE borrows[k]

\* let handle = <the handles the call returned>; a handle converted by
\* value goes back into the variable it was moved out of
KeepWithin(limit) ==
    /\ last.res.ret # <<>>
    /\ IF last.h \in DOMAIN handles /\ handles[last.h] = Moved
       THEN /\ handles' = [handles EXCEPT ![last.h] = last.res.ret[1]]
            /\ borrows' = borrows
       ELSE /\ Len(handles) + Len(last.res.ret) <= limit
            /\ handles' = handles \o last.res.ret
            /\ borrows' = borrows \o [j \in 1 .. Len(last.res.ret) |-> Borrowing(last.op, last.h)]
    /\ last' = Idle
    /\ UNCHANGED <<slice_ptr_len, mem, refs, held>>

Keep == KeepWithin(MaxHandles)

\* handle[index] = v; and handle[index].fill(v): the reference IndexMut
\* returns lives for the statement only
Assign(k, index, v) ==
    /\ last = Idle
    /\ handles[k].mut
    /\ LET res == Deferred_index_mut(handles[k], index) IN
       /\ last' = [Called("assign", k, index, 0, res) EXCEPT !.value = v]
       /\ mem' = IF res.tag = "ok" THEN Filled(res.ref, v) ELSE mem
    /\ UNCHANGED <<slice_ptr_len, handles, borrows, refs, held>>

\* if let Some(r) = handle.get_mut(index) { *r = v } (resp. r.fill(v))
AssignChecked(k, index, v) ==
    /\ last = Idle
    /\ handles[k].mut
    /\ LET res == Deferred_get_mut(handles[k], index) IN
       /\ last' = [Called("assign_checked", k, index, 0, res) EXCEPT !.value = v]
       /\ mem' = IF res.tag = "some" THEN Filled(res.ref, v) ELSE mem
    /\ UNCHANGED <<slice_ptr_len, handles, borrows, refs, held>>

\* the borrow rules of the language, which every caller is compiled under:
\* a handle whose variable was moved out of cannot be used; a method taking
\* &self needs no live exclusive borrow of the handle; a method taking
\* &mut self or self needs no live borrow of it at all
Live == {k \in DOMAIN handles : handles[k] # Moved}

BorrowedExcl(k) ==
    \/ \E j \in Live : borrows[j].from = k /\ borrows[j].excl
    \/ \E x \in held : x.h = k /\ x.ref.mut
    \/ last.h = k /\ last.res.ret # <<>> /\ Borrowing(last.op, k) = [from |-> k, excl |-> TRUE]
    \/ last.h = k /\ last.res.ref # NoRef /\ last.res.ref.mut /\ last.res.ref \in refs

BorrowedShared(k) ==
    \/ \E j \in Live : borrows[j].from = k /\ ~borrows[j].excl
    \/ \E x \in held : x.h = k /\ ~x.ref.mut
    \/ last.h = k /\ last.res.ret # <<>> /\ Borrowing(last.op, k) = [from |-> k, excl |-> FALSE]
    \/ last.h = k /\ last.res.ref # NoRef /\ ~last.res.ref.mut /\ last.res.ref \in refs

Ready == {k \in Live : ~BorrowedExcl(k)}

ReadyMut == {k \in Live : ~BorrowedExcl(k) /\ ~BorrowedShared(k)}

Next ==
    \/ \E k \in Ready : CallLen(k)
    \/ \E k \in Ready, index \in Indices : CallGet(k, index)
    \/ \E k \in ReadyMut, index \in Indices : CallGetMut(k, index)
    \/ \E k \in Ready, index \in Indices : CallGetUnchecked(k, index)
    \/ \E k \in ReadyMut, index \in Indices : CallGetUncheckedMut(k, index)
    \/ \E k \in Ready, index \in Indices : CallIndex(k, index)
    \/ \E k \in ReadyMut, index \in Indices : CallIndexMut(k, index)
    \/ \E k \in Ready, mid \in Usize : CallSplitAtUnchecked(k, mid)
    \/ \E k \in Ready, mid \in Usize : CallSplitAt(k, mid)
    \/ \E k \in ReadyMut, mid \in Usize : CallSplitAtMutUnchecked(k, mid)
    \/ \E k \in ReadyMut, mid \in Usize : CallSplitAtMut(k, mid)
    \/ \E k \in Ready : CallAsPtr(k)
    \/ \E k \in Ready : CallAsMutPtr(k)
    \/ \E k \in Ready : CallDeref(k)
    \/ \E k \in ReadyMut : CallDerefMut(k)
    \/ \E k \in Ready : CallCopy(k)
    \/ \E k \in Ready : CallClone(k)
    \/ \E k \in Ready : CallCloneUnchecked(k)
    \/ \E k \in Ready : CallDefer(k)
    \/ \E k \in Ready : CallDeferMut(k)
    \/ \E k \in ReadyMut : CallIntoRef(k)
    \/ \E k \in ReadyMut : CallFromMut(k)
    \/ \E k \in Ready : CallFromArray(k)
    \/ \E k \in ReadyMut : CallFromArrayMut(k)
    \/ \E k \in ReadyMut : CallFromArrayMutShared(k)
    \/ Discard

Spec == Init /\ [][Next]_vars

\* ---------------------------------------------------------------- SpecWrite
\* callers that keep up to MaxHandles handles to the whole place, made from
\* the cell, by clone_unchecked and by into_ref, and read and write the
\* place through them one statement at a time.  The build is the default
\* one: the handles are array handles, whose length is the N of the type in
\* every build
InitCell ==
    /\ slice_ptr_len = FALSE
    /\ mem = [a \in PlaceAddrs |-> 100 + (a - PlaceBase)]
    /\ handles = <<UnsafeCell_defer_mut>>
    /\ borrows = <<Owned>>
    /\ refs = {}
    /\ held = {}
    /\ last = Idle

NextWrite ==
    \/ CallCellDefer
    \/ CallCellDeferMut
    \/ \E k \in Ready : CallCloneUnchecked(k)
    \/ \E k \in ReadyMut : CallIntoRef(k)
    \/ Keep
    \/ \E k \in Ready, index \in SpanIndices : CallIndex(k, index)
    \/ \E k \in ReadyMut, index \in SpanIndices, v \in Values : Assign(k, index, v)
    \/ \E k \in ReadyMut, index \in SpanIndices, v \in Values : AssignChecked(k, index, v)
    \/ Discard

SpecWrite == InitCell /\ [][NextWrite]_vars

\* ---------------------------------------------------------------- SpecAlias
\* let r = &handle[index]; (resp. &mut handle[index]): the reference the call
\* returned is bound and stays live
Hold ==
    /\ last.res.ref # NoRef
    /\ Cardinality(held) < MaxHeld
    /\ held' = held \cup {[h |-> last.h, index |-> last.index, ref |-> last.res.ref]}
    /\ last' = Idle
    /\ UNCHANGED <<slice_ptr_len, mem, handles, borrows, refs>>

\* the last use of a bound reference: its borrow ends
Release(x) ==
    /\ last = Idle
    /\ held' = held \ {x}
    /\ refs' = {y.ref : y \in held \ {x}}
    /\ UNCHANGED <<slice_ptr_len, mem, handles, borrows, last>>

\* the promise the callers of the unsafe constructors make: the elements
\* asked for through handle k are asked for by no reference still bound
Disjoint(k) ==
    {index \in SpanIndices :
        \A x \in held :
            Requested(handles[k], index) \cap Requested(handles[x.h], x.index) = {}}

\* callers that keep up to MaxHandles exclusive handles to the whole place
\* (by defer_mut on the cell and by clone_unchecked), index them through
\* Index and IndexMut at pairwise disjoint elements and keep the references
NextAlias ==
    \/ CallCellDeferMut
    \/ \E k \in Ready : CallCloneUnchecked(k)
    \/ Keep
    \/ \E k \in Ready : \E index \in Disjoint(k) : CallIndex(k, index)
    \/ \E k \in ReadyMut : \E index \in Disjoint(k) : CallIndexMut(k, index)
    \/ Hold
    \/ \E x \in held : Release(x)
    \/ Discard

SpecAlias == InitCell /\ [][NextAlias]_vars

\* ---------------------------------------------------------------- SpecDeref
\* reference[i] for a reference to an array or a slice and i < len, as the
\* language defines it: a reborrow of element i
ElementOf(reference, i) ==
    [addr |-> reference.addr + i, len |-> 1, kind |-> "elem", mut |-> reference.mut]

\* let r = &mut handle.deref_mut()[i]: deref_mut creates the reference to
\* the whole region (res.ptr is its pointee), the element reference
\* reborrowed from it is handed out
DerefMutIndex(k, i) ==
    /\ last = Idle
    /\ handles[k].mut
    /\ i < handles[k].ptr.len
    /\ LET whole == Deferred_deref_mut(handles[k]) IN
       Return("deref_mut_index", k, Idx("usize", i, 0, FALSE), 0,
              Result(Returned(RefToPtr(whole.ref)), 0, ElementOf(whole.ref, i), <<>>))

\* the positions handle k can be asked for under the callers' promise
DisjointAt(k) == {index \in Disjoint(k) : index.shape = "usize"}

\* callers that keep up to MaxHandles exclusive handles to the whole place
\* and take references to pairwise different elements, through IndexMut or
\* through deref_mut, keeping the references
NextDeref ==
    \/ CallCellDeferMut
    \/ \E k \in Ready : CallCloneUnchecked(k)
    \/ Keep
    \/ \E k \in Ready : CallDeref(k)
    \/ \E k \in ReadyMut : CallDerefMut(k)
    \/ \E k \in ReadyMut : \E index \in DisjointAt(k) : CallIndexMut(k, index)
    \/ \E k \in ReadyMut : \E index \in DisjointAt(k) : DerefMutIndex(k, index.start)
    \/ last.index # NoIndex /\ Hold
    \/ \E x \in held : Release(x)
    \/ Discard

SpecDeref == InitCell /\ [][NextDeref]_vars

\* ---------------------------------------------------------------- SpecBuild
\* the references of a flavor to an array or a slice inside the place
PlaceRefs(m) ==
    {reference \in [addr : PlaceBase .. (PlaceBase + MaxLen), len : 0 .. MaxLen,
                    kind : {"array", "slice"}, mut : {m}] :
        reference.addr + reference.len <= PlaceBase + MaxLen}

\* a constructor returns: arg is the reference or pointer it was called with
Construct(op, arg, handle) ==
    /\ last = Idle
    /\ handles = <<>>
    /\ last' = [Called(op, 0, NoIndex, 0, Handed(<<handle>>)) EXCEPT !.arg = arg]
    /\ UNCHANGED <<slice_ptr_len, mem, handles, borrows, refs, held>>

CallNew(reference) == Construct("new", RefToPtr(reference), new(reference))

CallNewMut(reference) == Construct("new_mut", RefToPtr(reference), new_mut(reference))

CallFromRef(reference) == Construct("from_ref", RefToPtr(reference), From_ref(reference))

CallFromRefMut(reference) ==
    Construct("from_ref_mut", RefToPtr(reference), From_ref_mut(reference))

\* an unsafe fn: called with a pointer that is valid for the place
CallFromRaw(ptr) == Construct("from_raw", ptr, from_raw(ptr))

\* an unsafe fn: called with a pointer that is valid for the place
CallFromRawMut(ptr) == Construct("from_raw_mut", ptr, from_raw_mut(ptr))

\* no handle exists and no reference is live
InitBuild ==
    /\ slice_ptr_len \in BOOLEAN
    /\ mem = [a \in PlaceAddrs |-> 100 + (a - PlaceBase)]
    /\ handles = <<>>
    /\ borrows = <<>>
    /\ refs = {}
    /\ held = {}
    /\ last = Idle

\* callers that build one handle to a part of the place by any constructor,
\* keep it, take its pointer, dereference it and store through it
NextBuild ==
    \/ \E r \in PlaceRefs(FALSE) : CallNew(r)
    \/ \E r \in PlaceRefs(TRUE) : CallNewMut(r)
    \/ \E r \in PlaceRefs(FALSE) : CallFromRef(r)
    \/ \E r \in PlaceRefs(TRUE) : CallFromRefMut(r)
    \/ \E r \in PlaceRefs(FALSE) : CallFromRaw(RefToPtr(r))
    \/ \E r \in PlaceRefs(TRUE) : CallFromRawMut(RefToPtr(r))
    \/ Keep
    \/ \E k \in Ready : CallAsPtr(k)
    \/ \E k \in Ready : CallAsMutPtr(k)
    \/ \E k \in Ready : CallDeref(k)
    \/ \E k \in ReadyMut : CallDerefMut(k)
    \/ \E k \in ReadyMut, index \in SpanIndices, v \in Values : Assign(k, index, v)
    \/ Discard

SpecBuild == InitBuild /\ [][NextBuild]_vars

\* ---------------------------------------------------------------- SpecLen
\* let mut_borrow = &mut *(handle.deref_mut() as *mut _): the reference the
\* call returned is bound with its lifetime laundered, so that it borrows
\* no handle
Launder ==
    /\ last.op = "deref_mut"
    /\ Cardinality(held) < MaxHeld
    /\ held' = held \cup {[h |-> 0, index |-> NoIndex, ref |-> last.res.ref]}
    /\ last' = Idle
    /\ UNCHANGED <<slice_ptr_len, mem, handles, borrows, refs>>

\* mut_borrow.fill(v): a store through a bound exclusive reference
StoreHeld(x, v) ==
    /\ last = Idle
    /\ x.ref.mut
    /\ mem' = Filled(x.ref, v)
    /\ UNCHANGED <<slice_ptr_len, handles, borrows, refs, held, last>>

\* one exclusive handle made by an unsafe constructor from a pointer to an
\* array or a slice inside the place, in either build
InitLen ==
    /\ slice_ptr_len \in BOOLEAN
    /\ mem = [a \in PlaceAddrs |-> 100 + (a - PlaceBase)]
    /\ \E off \in 0 .. MaxLen, kind \in {"array", "slice"} :
         \E n \in 0 .. (MaxLen - off) :
            handles = <<from_raw_mut([addr |-> PlaceBase + off, len |-> n, kind |-> kind])>>
    /\ borrows = <<Owned>>
    /\ refs = {}
    /\ held = {}
    /\ last = Idle

\* callers that take the length of a handle while an exclusive reference to
\* its whole region is bound and stored through
NextLen ==
    \/ \E k \in Ready : CallLen(k)
    \/ \E k \in ReadyMut : held = {} /\ CallDerefMut(k)
    \/ Launder
    \/ \E x \in held, v \in Values : StoreHeld(x, v)
    \/ \E x \in held : Release(x)
    \/ Discard

SpecLen == InitLen /\ [][NextLen]_vars

\* ---------------------------------------------------------------- SpecSafe
\* indices that succeed, return None and panic
ProbeIndices ==
    {Idx("usize", 0, 0, FALSE), Idx("usize", MaxLen, 0, FALSE),
     Idx("Range", 0, 1, FALSE), Idx("Range", 1, 0, FALSE)}

Mids == 0 .. (MaxLen + 1)

\* one exclusive handle built by a safe constructor from a reference to
\* the whole place, an array (slice handles come from it by the conversions
\* and by splitting)
InitSafe ==
    /\ slice_ptr_len \in BOOLEAN
    /\ mem = [a \in PlaceAddrs |-> 100 + (a - PlaceBase)]
    /\ handles = <<new_mut([addr |-> PlaceBase, len |-> MaxLen, kind |-> "array", mut |-> TRUE])>>
    /\ borrows = <<Owned>>
    /\ refs = {}
    /\ held = {}
    /\ last = Idle

\* a step of a caller without unsafe code: every safe operation of the
\* crate, the handles it returns kept in a scope of limit handles
SafeStep(limit) ==
    \/ \E k \in Ready : CallLen(k)
    \/ \E k \in Ready, index \in ProbeIndices : CallGet(k, index)
    \/ \E k \in ReadyMut, index \in ProbeIndices : CallGetMut(k, index)
    \/ \E k \in Ready, index \in ProbeIndices : CallGetUnchecked(k, index)
    \/ \E k \in Ready, index \in ProbeIndices : CallIndex(k, index)
    \/ \E k \in ReadyMut, index \in ProbeIndices : CallIndexMut(k, index)
    \/ \E k \in Ready, mid \in Mids : CallSplitAt(k, mid)
    \/ \E k \in ReadyMut, mid \in Mids : CallSplitAtMut(k, mid)
    \/ \E k \in Ready : CallAsPtr(k)
    \/ \E k \in Ready : CallAsMutPtr(k)
    \/ \E k \in Ready : CallDeref(k)
    \/ \E k \in ReadyMut : CallDerefMut(k)
    \/ \E k \in Ready : CallCopy(k)
    \/ \E k \in Ready : CallClone(k)
    \/ \E k \in Ready : CallDefer(k)
    \/ \E k \in ReadyMut : CallIntoRef(k)
    \/ \E k \in ReadyMut : CallFromMut(k)
    \/ \E k \in Ready : CallFromArray(k)
    \/ \E k \in ReadyMut : CallFromArrayMut(k)
    \/ \E k \in ReadyMut : CallFromArrayMutShared(k)
    \/ KeepWithin(limit)
    \/ Discard

NextSafe == SafeStep(MaxScope)

SpecSafe == InitSafe /\ [][NextSafe]_vars

\* ---------------------------------------------------------------- SpecHandles
\* a caller that also duplicates exclusive handles by the unsafe
\* clone_unchecked and defer_mut
NextHandles ==
    \/ SafeStep(MaxHandles)
    \/ \E k \in Ready : CallCloneUnchecked(k)
    \/ \E k \in Ready : CallDeferMut(k)

SpecHandles == InitSafe /\ [][NextHandles]_vars

\* ---------------------------------------------------------------- properties
\* the handle the held call was made on
Callee == handles[last.h]

\* the length operation returns for this handle (an array handle, or a slice
\* handle in a build with slice_ptr_len): the handle has a length n = len()
LenKnown(self) == self.ptr.kind = "array" \/ slice_ptr_len

\* offset of the handle's element 0 in the place
PlaceOffset(self) == self.ptr.addr - PlaceBase

C2_SplitAtPanics ==
    [][(last.op = "idle" /\ last'.op \in {"split_at", "split_at_mut"}
            /\ last'.mid > handles[last'.h].ptr.len)
        => /\ last'.res.tag = "panic"
           /\ LenKnown(handles[last'.h]) => last'.res.msg = assert_fail
           /\ last'.res.ret = <<>>
           /\ last'.res.ptr = NoPtr
           /\ last'.res.ref = NoRef
           /\ last'.res.lens = 1
           /\ ~last'.res.ovf
           /\ mem' = mem
           /\ handles' = handles
           /\ refs' = refs]_vars

C2_Witness ==
    /\ last.op = "split_at_mut"
    /\ last.mid > Callee.ptr.len
    /\ last.res.tag = "panic"
    /\ last.res.msg = assert_fail
    /\ last.res.ret = <<>>

C4_IndexPositionPanics ==
    (last.op \in {"index", "index_mut"} /\ last.index.shape = "usize"
        /\ LenKnown(Callee) /\ last.index.start >= Callee.ptr.len)
    => /\ last.res.tag = "panic"
       /\ last.res.msg = slice_index_overflow_fail(last.index.start, Callee.ptr.len)
       /\ last.res.ptr = NoPtr
       /\ last.res.ref = NoRef

\* what the checked accessors must reject, for the shapes of C5
OutOfBounds(index, n) ==
    CASE index.shape = "usize" -> index.start >= n
      [] index.shape = "Range" -> index.start > index.end \/ index.end > n
      [] index.shape = "RangeTo" -> index.end > n
      [] index.shape = "RangeFrom" -> index.start > n

C7_InvertedInclusive ==
    (last.op \in {"get", "get_mut", "index", "index_mut"}
        /\ last.index.shape = "RangeInclusive" /\ ~last.index.exhausted
        /\ last.index.end < UsizeMax /\ last.index.start > last.index.end + 1
        /\ LenKnown(Callee))
    => /\ last.op \in {"get", "get_mut"} => last.res.tag = "none"
       /\ last.op \in {"index", "index_mut"}
            => /\ last.res.tag = "panic"
               /\ last.res.msg = slice_index_order_fail(last.index.start, last.index.end + 1)
       /\ last.res.ptr = NoPtr
       /\ last.res.ref = NoRef

\* C8: for an inclusive range a..=b or ..=b with b = usize::MAX, for every
\* start and every region, the checked accessors return None and the
\* panicking accessors panic with the up-to-maximum-usize message; b + 1 is
\* not computed (no usize overflow) and no reference is created.
C8_InclusiveEndAtMax ==
    (last.op \in {"get", "get_mut", "index", "index_mut"}
        /\ last.index.shape \in {"RangeInclusive", "RangeToInclusive"}
        /\ last.index.end = UsizeMax)
    => /\ last.op \in {"get", "get_mut"} => last.res.tag = "none"
       /\ last.op \in {"index", "index_mut"}
            => last.res.tag = "panic" /\ last.res.msg = slice_end_index_overflow_fail
       /\ ~last.res.ovf
       /\ last.res.lens = 0
       /\ last.res.ptr = NoPtr
       /\ last.res.ref = NoRef

C8_Witness ==
    /\ last.op = "get"
    /\ last.index.shape = "RangeInclusive"
    /\ last.index.end = UsizeMax
    /\ last.index.start = 0
    /\ last.res.tag = "none"
    /\ ~last.res.ovf

C10_RangeFullPassthrough ==
    (last.op \in {"get", "get_mut", "get_unchecked", "get_unchecked_mut", "index", "index_mut"}
        /\ last.index.shape = "RangeFull")
    => /\ last.res.tag = (IF last.op \in {"get", "get_mut"} THEN "some" ELSE "ok")
       /\ last.res.ptr = [addr |-> Callee.ptr.addr, len |-> Callee.ptr.len, kind |-> "slice"]
       /\ last.res.lens = 0
       /\ ~last.res.ovf
       /\ last.res.ref.addr = Callee.ptr.addr
       /\ last.res.ref.len = Callee.ptr.len
       /\ last.res.ref.mut = (last.op \in {"get_mut", "get_unchecked_mut", "index_mut"})

C10_Witness ==
    /\ last.op = "index"
    /\ last.index.shape = "RangeFull"
    /\ Callee.ptr.kind = "slice"
    /\ ~slice_ptr_len
    /\ Callee.ptr.len > 0
    /\ last.res.tag = "ok"
    /\ last.res.ptr.len = Callee.ptr.len

\* the element offset and the length a range index asks for, on a region of
\* n elements
RangeStart(index) ==
    IF index.shape \in {"Range", "RangeFrom", "RangeInclusive"} THEN index.start ELSE 0

RangeLength(index, n) ==
    CASE index.shape = "Range" -> index.end - index.start
      [] index.shape = "RangeTo" -> index.end
      [] index.shape = "RangeFrom" -> n - index.start
      [] index.shape = "RangeInclusive" -> index.end - index.start + 1
      [] index.shape = "RangeToInclusive" -> index.end + 1

Observed(res) == [tag |-> res.tag, msg |-> res.msg, ptr |-> res.ptr, vals |-> Contents(res.ref)]

\* C12: downgrading an exclusive handle (into_ref, From) never fails and
\* returns one shared handle with the address and length of the exclusive
\* handle; the call creates no reference and changes no memory;
\* dereferencing the shared handle, and indexing it with any index through
\* get or Index, gives the outcome, address and values that dereferencing
\* or indexing the exclusive handle (get / get_mut, Index / IndexMut,
\* deref / deref_mut) gives.
C12_Downgrade ==
    [][(last.op = "idle" /\ last'.op \in {"into_ref", "from_mut"})
        => LET self == handles[last'.h] IN
           /\ last'.res.tag = "ok"
           /\ Len(last'.res.ret) = 1
           /\ LET shared == last'.res.ret[1] IN
              /\ ~shared.mut
              /\ shared.ptr = self.ptr
              /\ Observed(Deferred_deref(shared)) = Observed(Deferred_deref_mut(self))
              /\ Observed(Deferred_deref(shared)) = Observed(Deferred_deref(self))
              /\ \A index \in Indices :
                    /\ Observed(Deferred_index(shared, index))
                         = Observed(Deferred_index_mut(self, index))
                    /\ Observed(Deferred_index(shared, index))
                         = Observed(Deferred_index(self, index))
                    /\ Observed(Deferred_get(shared, index))
                         = Observed(Deferred_get_mut(self, index))
                    /\ Observed(Deferred_get(shared, index))
                         = Observed(Deferred_get(self, index))
           /\ last'.res.ref = NoRef
           /\ refs' = refs
           /\ held' = held
           /\ mem' = mem]_vars

C12_Witness ==
    /\ last.op = "into_ref"
    /\ last.res.tag = "ok"
    /\ Len(last.res.ret) = 1
    /\ last.res.ret[1].ptr.kind = "slice"
    /\ last.res.ret[1].ptr.len = 2
    /\ last.res.ret[1].ptr.addr > PlaceBase
    /\ ~last.res.ret[1].mut
    /\ Callee = Moved
    /\ refs = {}

\* C13: widening an array handle of length N to a slice handle (shared to
\* shared, exclusive to exclusive, exclusive to shared) never fails, in
\* every build, and returns one slice handle of the flavor of the
\* conversion with the base address of the array handle, length N and the
\* same contents element by element; it creates no reference.
C13_Widening ==
    [][(last.op = "idle"
            /\ last'.op \in {"from_array", "from_array_mut", "from_array_mut_shared"})
        => LET self == handles[last'.h] IN
           /\ last'.res.tag = "ok"
           /\ Len(last'.res.ret) = 1
           /\ LET slice == last'.res.ret[1] IN
              /\ slice.mut = (last'.op = "from_array_mut")
              /\ slice.ptr = [addr |-> self.ptr.addr, len |-> self.ptr.len, kind |-> "slice"]
              /\ \A j \in 1 .. self.ptr.len :
                    /\ Contents(slice.ptr)[j] = Contents(self.ptr)[j]
                    /\ Contents(slice.ptr)[j] = PlaceIndex(PlaceOffset(self) + j - 1)
              /\ Contents(Deferred_deref(slice).ref) = Contents(Deferred_deref(self).ref)
           /\ last'.res.ref = NoRef
           /\ refs' = refs
           /\ mem' = mem]_vars

C13_Witness ==
    /\ last.op = "from_array_mut"
    /\ last.res.tag = "ok"
    /\ Len(last.res.ret) = 1
    /\ last.res.ret[1].mut
    /\ last.res.ret[1].ptr.kind = "slice"
    /\ last.res.ret[1].ptr.len = MaxLen
    /\ ~slice_ptr_len

\* C14: a store through an exclusive handle restricted to an index (a
\* position or a range, through IndexMut or get_mut) changes only elements
\* the index asks for: every other element of the place keeps its value,
\* every element of the place inside the range holds the stored value
\* afterwards, and a store whose indexing fails changes nothing; so stores
\* through two handles into disjoint ranges leave in each range what was
\* stored into it.
C14_WriteFrame ==
    [][(last.op = "idle" /\ last'.op \in {"assign", "assign_checked"})
        => LET self == handles[last'.h]
               range == Requested(self, last'.index)
           IN  /\ \A a \in PlaceAddrs \ range : mem'[a] = mem[a]
               /\ last'.res.tag \in {"ok", "some"}
                    => \A a \in PlaceAddrs \cap range : mem'[a] = last'.value
               /\ last'.res.tag \notin {"ok", "some"} => mem' = mem
               /\ handles' = handles]_vars

C14_Witness ==
    /\ last.op = "assign"
    /\ last.h = 2
    /\ handles[1].mut /\ handles[2].mut
    /\ handles[1].ptr = handles[2].ptr
    /\ last.index = Idx("RangeFrom", 1, 0, FALSE)
    /\ last.value = 2
    /\ last.res.tag = "ok"
    /\ mem[PlaceBase] = 1
    /\ \A a \in PlaceAddrs \ {PlaceBase} : mem[a] = 2

\* C15: the reference created by indexing a handle through Index,
\* IndexMut, get or get_mut, with an index of any shape, covers exactly the
\* elements the index asks for ([start, end) of the handle's region) and no
\* other element, has the flavor of the accessor (shared for Index and get,
\* exclusive for IndexMut and get_mut), and is the only reference the call
\* creates.
C15_ReferenceExact ==
    (last.op \in {"get", "get_mut", "index", "index_mut"} /\ last.res.ref # NoRef)
    => /\ Cover(last.res.ref) = Requested(Callee, last.index)
       /\ last.res.ref.mut = (last.op \in {"get_mut", "index_mut"})
       /\ refs = {last.res.ref}
       /\ Requested(Callee, last.index) # Cover(Callee.ptr)
            => Cover(last.res.ref) # Cover(Callee.ptr)

C15_Witness ==
    /\ last.op = "index_mut"
    /\ last.index.shape = "Range"
    /\ 0 < last.index.start /\ last.index.start < last.index.end
    /\ PlaceOffset(Callee) > 0
    /\ last.res.tag = "ok"
    /\ last.res.ref.mut
    /\ Cover(last.res.ref) = {Callee.ptr.addr + last.index.start}
    /\ Cover(Callee.ptr) # Cover(last.res.ref)

\* the live references with the call each one comes from: those bound by
\* the caller and the one the held call returned
LiveBorrows ==
    held \cup (IF last.res.ref = NoRef THEN {}
               ELSE {[h |-> last.h, index |-> last.index, ref |-> last.res.ref]})

\* C16: with two or more exclusive handles to one region (from repeated
\* defer_mut on the cell and from clone_unchecked), in every interleaving
\* in which the callers index pairwise disjoint elements through Index and
\* IndexMut and keep the references, no reachable state holds two live
\* references that share an element and of which one is exclusive.
C16_NoOverlap ==
    \A x \in LiveBorrows : \A y \in LiveBorrows :
        (x # y /\ (x.ref.mut \/ y.ref.mut))
        => Cover(x.ref) \cap Cover(y.ref) = {}

C16_Witness ==
    /\ Cardinality(held) = 2
    /\ \E x \in held : \E y \in held :
          /\ x.h = 1 /\ y.h = 2
          /\ handles[1].mut /\ handles[2].mut
          /\ handles[1].ptr = handles[2].ptr
          /\ x.ref.mut /\ y.ref.mut
          /\ Cover(x.ref) = {PlaceBase + 1}
          /\ Cover(y.ref) = {PlaceBase + 2}
    /\ refs = {x.ref : x \in held}

\* the values a read of handle[i] yields
ReadThrough(j, i) == Contents(Deferred_index(handles[j], Idx("usize", i, 0, FALSE)).ref)

\* C17: all handles to a region observe one memory.  In every state a read
\* of index i through any handle in scope (shared from the cell, exclusive,
\* reborrowed by clone_unchecked, downgraded by into_ref) yields what the
\* one memory holds at element i of the region; and every step leaves at
\* each element the value the step stored there, if the step is a store
\* through some exclusive handle that covers the element, and otherwise the
\* value the element held before.  By induction a read returns the value
\* most recently stored at index i.
C17_OneMemory ==
    /\ [](\A j \in DOMAIN handles :
            (handles[j] # Moved /\ LenKnown(handles[j]))
            => \A i \in 0 .. (handles[j].ptr.len - 1) :
                  ReadThrough(j, i) = << mem[handles[j].ptr.addr + i] >>)
    /\ [][\A a \in PlaceAddrs :
            LET stored == /\ last.op = "idle"
                          /\ last'.op \in {"assign", "assign_checked"}
                          /\ last'.res.tag \in {"ok", "some"}
                          /\ a \in Requested(handles[last'.h], last'.index)
            IN  mem'[a] = IF stored THEN last'.value ELSE mem[a]]_vars

C17_Witness ==
    /\ Len(handles) = 2
    /\ handles[1].mut
    /\ ~handles[2].mut
    /\ last.op = "index"
    /\ last.h = 2
    /\ last.index = Idx("usize", 1, 0, FALSE)
    /\ last.res.tag = "ok"
    /\ Contents(last.res.ref) = <<2>>
    /\ mem[PlaceBase] = 1

\* the exclusive handles a caller can use: those in scope that no live
\* handle or reference borrows exclusively, and those the held call returned
UsableExclusive ==
    {[id |-> k, ptr |-> handles[k].ptr] : k \in {j \in Ready : handles[j].mut}}
    \cup {[id |-> Len(handles) + i, ptr |-> last.res.ret[i].ptr] :
            i \in {j \in DOMAIN last.res.ret : last.res.ret[j].mut}}

\* C19: starting from one exclusive handle and using safe operations only
\* (copy and clone of shared handles, into_ref and the From conversions,
\* defer, split_at, split_at_mut, the accessors, deref), any two exclusive
\* handles usable at the same time cover disjoint sets of elements.
C19_SafeExclusiveDisjoint ==
    \A x \in UsableExclusive : \A y \in UsableExclusive :
        x.id # y.id => Cover(x.ptr) \cap Cover(y.ptr) = {}

C19_Witness ==
    /\ last = Idle
    /\ Len(handles) = 3
    /\ handles[1].mut /\ handles[2].mut /\ handles[3].mut
    /\ 1 \notin Ready
    /\ {2, 3} \subseteq ReadyMut
    /\ borrows[2] = [from |-> 1, excl |-> TRUE]
    /\ handles[2].ptr.len = 1
    /\ handles[3].ptr.len = MaxLen - 1
    /\ Cover(handles[2].ptr) \cup Cover(handles[3].ptr) = Cover(handles[1].ptr)

\* C18: the address and length of a handle are fixed at construction: no
\* call of len, as_ptr, as_mut_ptr, deref, deref_mut, get, get_mut, Index,
\* IndexMut, split_at, split_at_mut, clone_unchecked, defer or defer_mut,
\* whether it succeeds, returns None or panics, changes the pointer (or
\* the flavor) stored in the handle it is called on or in any other handle
\* in scope.
C18_HandlesFixed ==
    [][(last.op = "idle"
            /\ last'.op \in {"len", "as_ptr", "as_mut_ptr", "deref", "deref_mut", "get",
                             "get_mut", "index", "index_mut", "split_at", "split_at_mut",
                             "clone_unchecked", "defer", "defer_mut"})
        => /\ DOMAIN handles' = DOMAIN handles
           /\ \A k \in DOMAIN handles :
                 /\ handles'[k].ptr.addr = handles[k].ptr.addr
                 /\ handles'[k].ptr.len = handles[k].ptr.len
                 /\ handles'[k] = handles[k]]_vars

C18_Witness ==
    /\ Len(handles) = 2
    /\ handles[1].ptr.kind = "slice"
    /\ handles[2].ptr.kind = "array"
    /\ handles[1].mut /\ handles[2].mut
    /\ last.op = "split_at_mut"
    /\ last.h = 2
    /\ last.res.tag = "panic"

\* C20: copying or cloning a shared handle, clone_unchecked on an exclusive
\* handle, and defer and defer_mut called on a handle never fail and
\* return one handle with the address and length of the original;
\* clone_unchecked and defer_mut return an exclusive handle, defer and the
\* copy a shared one; the original stays in scope, usable and unchanged;
\* no reference is created and no memory changes.
C20_DuplicateSamePlace ==
    [][(last.op = "idle"
            /\ last'.op \in {"copy", "clone", "clone_unchecked", "defer", "defer_mut"})
        => LET self == handles[last'.h] IN
           /\ last'.res.tag = "ok"
           /\ Len(last'.res.ret) = 1
           /\ last'.res.ret[1].ptr = self.ptr
           /\ last'.res.ret[1].mut = (last'.op \in {"clone_unchecked", "defer_mut"})
           /\ handles' = handles
           /\ last'.h \in Ready'
           /\ last'.res.ref = NoRef
           /\ refs' = refs
           /\ mem' = mem]_vars

C20_Witness ==
    /\ last.op = "defer"
    /\ Callee.mut
    /\ Callee.ptr.kind = "slice"
    /\ PlaceOffset(Callee) > 0
    /\ Callee.ptr.len > 0
    /\ Len(last.res.ret) = 1
    /\ last.res.ret[1] = [ptr |-> Callee.ptr, mut |-> FALSE]
    /\ last.h \in Ready

\* C21: for an interior-mutability cell, defer and defer_mut return handles
\* (shared, resp. exclusive) that store the address UnsafeCell::get returns,
\* the address of the contents of the cell, at every call, whatever calls
\* and stores came before; the call creates no reference and leaves the
\* contents, the handles in scope and the live references as they were.
C21_CellSameLocation ==
    [][(last.op = "idle" /\ last'.op \in {"cell_defer", "cell_defer_mut"})
        => /\ last'.res.tag = "ok"
           /\ Len(last'.res.ret) = 1
           /\ last'.res.ret[1].ptr = UnsafeCell_get
           /\ as_ptr(last'.res.ret[1]).addr = PlaceBase
           /\ last'.res.ret[1].mut = (last'.op = "cell_defer_mut")
           /\ \A j \in DOMAIN handles :
                 handles[j] # Moved => as_ptr(handles[j]) = as_ptr(last'.res.ret[1])
           /\ last'.res.ref = NoRef
           /\ refs' = refs
           /\ mem' = mem
           /\ handles' = handles]_vars

C21_Witness ==
    /\ last.op = "cell_defer"
    /\ Len(handles) = 2
    /\ handles[1].mut /\ handles[2].mut
    /\ \E a \in PlaceAddrs : mem[a] \in Values
    /\ last.res.ret[1] = from_raw(handles[2].ptr)

\* C22: len on a handle to a fixed-size array of N elements returns N, for
\* every address of the array and whatever the memory holds; it creates no
\* reference and changes nothing, so a call made while an exclusive
\* reference to the whole region is live leaves that reference the only
\* live reference to the region.
C22_ArrayLen ==
    [][(last.op = "idle" /\ last'.op = "len" /\ as_ptr(handles[last'.h]).kind = "array")
        => /\ last'.res.tag = "ok"
           /\ last'.res.val = ArrayLen(as_ptr(handles[last'.h]))
           /\ last'.res.ref = NoRef
           /\ last'.res.ret = <<>>
           /\ refs' = refs
           /\ mem' = mem
           /\ held' = held
           /\ handles' = handles]_vars

C22_Witness ==
    /\ last.op = "len"
    /\ Callee.ptr.kind = "array"
    /\ PlaceOffset(Callee) > 0
    /\ Callee.ptr.len > 1
    /\ last.res.val = Callee.ptr.len
    /\ \E x \in held : x.ref.mut /\ x.ref \in refs /\ Cover(x.ref) = Cover(Callee.ptr)
    /\ \A a \in Cover(Callee.ptr) : mem[a] = 1

\* C23: len on a handle to a dynamically-sized slice never goes through the
\* address: in a build with the fat-pointer metadata (slice_ptr_len) it
\* returns the element count the pointer carries; in a build without it
\* every call panics with the feature message and returns no value; in both
\* builds no reference is created and nothing changes.
C23_SliceLen ==
    [][(last.op = "idle" /\ last'.op = "len" /\ as_ptr(handles[last'.h]).kind = "slice")
        => /\ slice_ptr_len
                => /\ last'.res.tag = "ok"
                   /\ last'.res.val = as_ptr(handles[last'.h]).len
           /\ ~slice_ptr_len
                => /\ last'.res.tag = "panic"
                   /\ last'.res.msg = slice_ptr_len_fail
                   /\ last'.res.val = 0
           /\ last'.res.ref = NoRef
           /\ last'.res.ret = <<>>
           /\ last'.res.ptr = NoPtr
           /\ refs' = refs
           /\ mem' = mem
           /\ held' = held
           /\ handles' = handles]_vars

C23_Witness ==
    /\ last.op = "len"
    /\ Callee.ptr.kind = "slice"
    /\ ~slice_ptr_len
    /\ last.res.tag = "panic"
    /\ Callee.ptr.len > 1
    /\ \E x \in held : x.ref.mut /\ x.ref \in refs /\ Cover(x.ref) = Cover(Callee.ptr)

\* the constructors that take a reference, and those that take a pointer
FromReference == {"new", "new_mut", "from_ref", "from_ref_mut"}

FromPointer == {"from_raw", "from_raw_mut"}

\* C24: construction preserves the address.  A handle built from a
\* reference (new, new_mut, From) or from a raw pointer (from_raw,
\* from_raw_mut) stores exactly the pointer it was built from and has the
\* flavor of the constructor; as_ptr and as_mut_ptr return the stored
\* pointer unchanged; deref and deref_mut yield a reference of the flavor of
\* the method to the place the handle was built from, holding the contents
\* of that place; construction and the pointer accessors create no
\* reference, and none of these calls changes the memory or the handles.
C24_AddressPreserved ==
    /\ [][/\ (last.op = "idle" /\ last'.op \in FromReference \cup FromPointer)
                => /\ Len(last'.res.ret) = 1
                   /\ as_ptr(last'.res.ret[1]) = last'.arg
                   /\ last'.res.ret[1].mut = (last'.op \in {"new_mut", "from_ref_mut", "from_raw_mut"})
                   /\ last'.res.ref = NoRef
                   /\ refs' = refs
          /\ (last.op = "idle" /\ last'.op \in {"as_ptr", "as_mut_ptr"})
                => /\ last'.res.ptr = handles[last'.h].ptr
                   /\ last'.res.ref = NoRef
                   /\ refs' = refs
          /\ (last.op = "idle" /\ last'.op \in {"deref", "deref_mut"})
                => /\ RefToPtr(last'.res.ref) = handles[last'.h].ptr
                   /\ last'.res.ref.mut = (last'.op = "deref_mut")
          /\ (last.op = "idle" /\ last'.op \notin {"idle", "assign"})
                => mem' = mem /\ handles' = handles]_vars
    /\ [](last.op \in {"deref", "deref_mut"}
            => Contents(last.res.ref)
                 = [j \in 1 .. Callee.ptr.len |-> PlaceIndex(PlaceOffset(Callee) + j - 1)])

C24_Witness ==
    /\ last.op = "deref"
    /\ Callee.mut
    /\ Callee.ptr.kind = "slice"
    /\ PlaceOffset(Callee) = 1
    /\ Contents(last.res.ref) = <<2, 101 + 1>>

\* the four splitting methods
Splits == {"split_at", "split_at_mut", "split_at_unchecked", "split_at_mut_unchecked"}

\* C25: splitting creates no reference.  split_at, split_at_mut and their
\* unchecked variants return no reference and leave the live references,
\* the memory and the handles unchanged; the two handles returned cover the
\* elements [0, mid) and [mid, len) of the region of the handle, which are
\* disjoint, so the references deref_mut gives for the two halves share no
\* element.
C25_SplitCreatesNoReference ==
    /\ [][(last.op = "idle" /\ last'.op \in Splits)
            => /\ last'.res.ref = NoRef
               /\ refs' = refs
               /\ mem' = mem
               /\ handles' = handles]_vars
    /\ []((last.op \in Splits /\ last.res.tag = "ok")
            => LET left == last.res.ret[1]
                   right == last.res.ret[2]
                   base == Callee.ptr.addr
               IN  /\ Len(last.res.ret) = 2
                   /\ Cover(left.ptr) = {base + j : j \in 0 .. (last.mid - 1)}
                   /\ Cover(right.ptr) = {base + j : j \in last.mid .. (Callee.ptr.len - 1)}
                   /\ Cover(left.ptr) \cap Cover(right.ptr) = {}
                   /\ Cover(Deferred_deref_mut(left).ref)
                        \cap Cover(Deferred_deref_mut(right).ref) = {})

C25_Witness ==
    /\ last.op = "split_at_mut"
    /\ last.res.tag = "ok"
    /\ PlaceOffset(Callee) = 1
    /\ last.mid = 1
    /\ Cover(Deferred_deref_mut(last.res.ret[1]).ref) = {PlaceBase + 1}
    /\ Cover(Deferred_deref_mut(last.res.ret[2]).ref) = {PlaceBase + 2}
    /\ refs = {}

\* the live references into the region of a handle that borrow another handle
HeldElsewhere(k) ==
    {x \in held : x.h # k /\ Cover(x.ref) # {} /\ Cover(x.ref) \subseteq Cover(handles[k].ptr)}

\* C26: whole-handle dereference covers the whole region.  deref yields a
\* shared and deref_mut an exclusive reference over the elements [0, len)
\* of the handle; so with two exclusive handles to one region, taking
\* deref_mut()[i] from one while a reference to another element j of the
\* region, taken from the other handle, is still held creates an exclusive
\* reference that overlaps the held one, although i # j; the same access
\* through IndexMut creates a reference to element i only, which overlaps
\* no held reference.
C26_DerefCoversAll ==
    /\ last.op \in {"deref", "deref_mut"}
         => /\ Cover(last.res.ref) = {Callee.ptr.addr + j : j \in 0 .. (Callee.ptr.len - 1)}
            /\ last.res.ref.mut = (last.op = "deref_mut")
    /\ last.op = "deref_mut_index"
         => /\ Cover(last.res.ptr) = {Callee.ptr.addr + j : j \in 0 .. (Callee.ptr.len - 1)}
            /\ \A x \in HeldElsewhere(last.h) : Cover(x.ref) \cap Cover(last.res.ptr) # {}
            /\ \A x \in held : Cover(x.ref) \cap Cover(last.res.ref) = {}
    /\ (last.op = "index_mut" /\ last.res.tag = "ok")
         => /\ last.res.ptr = RefToPtr(last.res.ref)
            /\ \A x \in held : Cover(x.ref) \cap Cover(last.res.ref) = {}

C26_Witness ==
    /\ last.op = "deref_mut_index"
    /\ last.h = 2
    /\ handles[1].mut /\ handles[2].mut
    /\ handles[1].ptr = handles[2].ptr
    /\ Cover(last.res.ref) = {PlaceBase + 2}
    /\ \E x \in held : x.h = 1 /\ x.ref.mut /\ Cover(x.ref) = {PlaceBase + 1}
                       /\ x.ref \in refs
                       /\ Cover(x.ref) \subseteq Cover(last.res.ptr)

\* the sub-region a pointer covers lies inside the region of the handle
Contained(ptr, self) ==
    /\ self.ptr.addr <= ptr.addr
    /\ (ptr.addr - self.ptr.addr) + ptr.len <= self.ptr.len

\* C27: sub-region containment.  For every index shape and every index
\* value on a handle of length n, whenever get or get_mut returns Some or
\* Index or IndexMut returns normally, the sub-region [off, off + k) it
\* returns satisfies off + k <= n (a position i counts as [i, i + 1)).
C27_Containment ==
    (last.op \in {"get", "get_mut", "index", "index_mut"} /\ LenKnown(Callee)
        /\ last.res.tag \in {"some", "ok"})
    => Contained(last.res.ptr, Callee)

\* C28: the checked and the panicking accessors agree.  For every index
\* shape, every index value and every region, get returns Some(p) if and
\* only if index does not panic, and then index returns p (the same offset
\* and length); likewise for get_mut and index_mut.
C28_CheckedAgreesWithPanicking ==
    last.op \in {"get", "get_mut", "index", "index_mut"}
    => LET g == SlicePointerIndex_get(last.index, as_ptr(Callee))
           i == SlicePointerIndex_index(last.index, as_ptr(Callee))
           gm == SlicePointerIndex_get_mut(last.index, as_mut_ptr(Callee))
           im == SlicePointerIndex_index_mut(last.index, as_mut_ptr(Callee))
       IN  /\ (g.tag = "some") <=> (i.tag # "panic")
           /\ g.tag = "some" => g.ptr = i.ptr
           /\ (gm.tag = "some") <=> (im.tag # "panic")
           /\ gm.tag = "some" => gm.ptr = im.ptr

\* C29: with safe operations only, on a handle built by a safe constructor
\* over the place (get, get_unchecked, get_mut, Index, IndexMut, split_at,
\* split_at_mut, deref, deref_mut, the conversions), every live reference
\* and every handle in scope or returned covers only elements of the place:
\* no sequence of safe calls reaches memory outside the region.
C29_SafeStaysInside ==
    /\ \A r \in refs : Cover(r) \subseteq PlaceAddrs
    /\ \A k \in Live : Cover(handles[k].ptr) \subseteq PlaceAddrs
    /\ \A j \in DOMAIN last.res.ret : Cover(last.res.ret[j].ptr) \subseteq PlaceAddrs

\* the accessors that take an index
Indexers == {"get", "get_mut", "get_unchecked", "get_unchecked_mut", "index", "index_mut"}

\* C30: the mutable and the shared variant of every indexer compute the same
\* thing.  For every index shape, every index value and every region,
\* get_mut, get_unchecked_mut and index_mut return, return None or panic on
\* exactly the inputs on which get, get_unchecked and index do, with the
\* same panic message, and return the same pointer (the same offset and
\* length); the references Deferred makes of them differ in flavor only.
C30_MutAgreesWithShared ==
    last.op \in Indexers
    => LET p == as_ptr(Callee)
           q == as_mut_ptr(Callee)
       IN  /\ SlicePointerIndex_get_mut(last.index, q) = SlicePointerIndex_get(last.index, p)
           /\ SlicePointerIndex_get_unchecked_mut(last.index, q)
                = SlicePointerIndex_get_unchecked(last.index, p)
           /\ SlicePointerIndex_index_mut(last.index, q) = SlicePointerIndex_index(last.index, p)
           /\ [Deferred_get_mut(Callee, last.index) EXCEPT !.ref.mut = FALSE]
                = Deferred_get(Callee, last.index)
           /\ [Deferred_get_unchecked_mut(Callee, last.index) EXCEPT !.ref.mut = FALSE]
                = Deferred_get_unchecked(Callee, last.index)
           /\ [Deferred_index_mut(Callee, last.index) EXCEPT !.ref.mut = FALSE]
                = Deferred_index(Callee, last.index)

C30_Witness ==
    /\ last.op = "index_mut"
    /\ last.index = Idx("RangeFrom", Callee.ptr.len, 0, FALSE)
    /\ Callee.ptr.len = 2
    /\ PlaceOffset(Callee) = 1
    /\ last.res.tag = "ok"
    /\ last.res.ref.mut
    /\ last.res.ptr.len = 0
    /\ Deferred_index(Callee, last.index).ptr = last.res.ptr

====
